---- MODULE Spec2Model ----
(***************************************************************************)
(* Credential lifecycle of pynetatmo's Weatherstation: the token store     *)
(* file, the provider's token endpoint and the objects (processes) that     *)
(* run Weatherstation._get_or_refresh_tokens against one token store.      *)
(*                                                                         *)
(* Time is counted in ticks, TicksPerSec ticks to the second, so that the  *)
(* sub-second component of datetime.utcnow() (the microseconds) is part of *)
(* the model: an instant t has whole seconds t \div TicksPerSec and        *)
(* fraction t % TicksPerSec.                                               *)
(***************************************************************************)
EXTENDS Integers, Sequences, FiniteSets, TLC

\* ---------------------------------------------------------------- bounds
TicksPerSec == 2
MaxTime == 6
MaxGrants == 2
MaxExpires == 2
NumCallers == 2

Callers == 1..NumCallers
ExpiresChoices == 1..MaxExpires

VARIABLES
    now,            \* dt.datetime.utcnow(), in ticks
    file,           \* the token store file: <<>> (no file) or <<dict>>
    fileWrittenAt,  \* instant of the program's last write of the file, -1: not written by it
    grants,         \* token pairs the provider has issued
    pc,             \* per object: where it stands in __init__
    config,         \* per object: the token keys of self.config
    store,          \* per object: the local `store` of _get_or_refresh_tokens
    lastupdate,     \* per object: the local `lastupdate` (ticks), -1 before it is set
    loaded,         \* per object: the file as the call found it
    loadedAt,       \* per object: utcnow() of line 116 (the call's start when no file)
    acq,            \* per object: _get_token requests sent by the current call
    ref,            \* per object: _refresh_token requests sent by the current call
    sent,           \* per object: the refresh token of the request in flight, <<>> if none
    resp,           \* per object: the provider's answer to the call's request
    retAt,          \* per object: the instant the call ended, -1 while it has not
    stamp,          \* per object: utcnow() of line 126 or 132, -1 before it is read
    prev,           \* per object: what the run before found and returned, <<>> if it did not return
    asked           \* per object: the instant of its telemetry request, -1 while response_cache is ''

vars == <<now, file, fileWrittenAt, grants, pc, config, store, lastupdate,
          loaded, loadedAt, acq, ref, sent, resp, retAt, stamp, prev, asked>>

\* ------------------------------------------------------ dictionaries (YAML)
EmptyDict == [k \in {} |-> 0]

Put(d, k, v) == [j \in (DOMAIN d) \cup {k} |-> IF j = k THEN v ELSE d[j]]

Has(d, k) == k \in DOMAIN d

\* ------------------------------------------------------------- timestamps
\* The text of a timestamp: whole seconds and the fractional part, NoFrac when
\* the text has no ".ffffff" part at all.
NoFrac == -1

ParseError == -1

\* datetime.isoformat(): the fraction is left out when the microseconds are 0.
IsoFormat(t) ==
    [sec |-> t \div TicksPerSec,
     frac |-> IF t % TicksPerSec = 0 THEN NoFrac ELSE t % TicksPerSec]

\* datetime.strptime(s, "%Y-%m-%dT%H:%M:%S.%f"): the ".%f" part is required.
Strptime(s) ==
    IF s.frac = NoFrac THEN ParseError ELSE s.sec * TicksPerSec + s.frac

\* The instant a timestamp text denotes (ISO-8601: no fraction means fraction 0).
Instant(s) == s.sec * TicksPerSec + (IF s.frac = NoFrac THEN 0 ELSE s.frac)

\* ------------------------------------------------------------------ tokens
AccessToken(n) == <<"access", n>>

RefreshToken(n) == <<"refresh", n>>

\* The provider's JSON body of a successful grant.
TokenResponse(n, e) ==
    [access_token |-> AccessToken(n), refresh_token |-> RefreshToken(n),
     expires_in |-> e]

Record(n, e, ts) ==
    [access_token |-> AccessToken(n), refresh_token |-> RefreshToken(n),
     expires_in |-> e, tokens_last_updated |-> ts]

\* ------------------------------------------------------------ initial files
\* What the token store can hold when the first object is constructed: nothing,
\* a record of an earlier run (issued at instant 0, written with or without
\* the fraction), or a record with a field missing.
InitFiles ==
    {<<>>}
    \cup {<<Record(0, e, [sec |-> 0, frac |-> 0])>> : e \in ExpiresChoices}
    \cup {<<Record(0, 1, [sec |-> 0, frac |-> NoFrac])>>}
    \cup {<<[access_token |-> AccessToken(0), refresh_token |-> RefreshToken(0),
             tokens_last_updated |-> [sec |-> 0, frac |-> 0]]>>}

NoConfig == EmptyDict

\* What came back from requests.post: nothing yet, a token pair, or a failure.
NoAnswer == [status |-> "none", body |-> EmptyDict]

Answer(status, body) == [status |-> status, body |-> body]

Init ==
    /\ now = 0
    /\ file \in InitFiles
    /\ fileWrittenAt = -1
    /\ grants = 0
    /\ pc = [c \in Callers |-> "new"]
    /\ config = [c \in Callers |-> NoConfig]
    /\ store = [c \in Callers |-> EmptyDict]
    /\ lastupdate = [c \in Callers |-> -1]
    /\ loaded = [c \in Callers |-> <<>>]
    /\ loadedAt = [c \in Callers |-> -1]
    /\ acq = [c \in Callers |-> 0]
    /\ ref = [c \in Callers |-> 0]
    /\ sent = [c \in Callers |-> <<>>]
    /\ resp = [c \in Callers |-> NoAnswer]
    /\ retAt = [c \in Callers |-> -1]
    /\ stamp = [c \in Callers |-> -1]
    /\ prev = [c \in Callers |-> <<>>]
    /\ asked = [c \in Callers |-> -1]


\* ------------------------------------------------- _get_or_refresh_tokens
\* Lines 109-115 raise (KeyError, ValueError) when a key is missing or the
\* timestamp text does not match the format.
LoadError(d) ==
    IF ~Has(d, "access_token") THEN TRUE
    ELSE IF ~Has(d, "refresh_token") THEN TRUE
    ELSE IF ~Has(d, "expires_in") THEN TRUE
    ELSE IF ~Has(d, "tokens_last_updated") THEN TRUE
    ELSE Strptime(d["tokens_last_updated"]) = ParseError

\* Lines 109-111: self.config takes the keys one by one, up to the first that
\* is missing.
ConfigAfterLoad(cfg, d) ==
    IF ~Has(d, "access_token") THEN cfg
    ELSE IF ~Has(d, "refresh_token")
        THEN Put(cfg, "access_token", d["access_token"])
    ELSE IF ~Has(d, "expires_in")
        THEN Put(Put(cfg, "access_token", d["access_token"]),
                 "refresh_token", d["refresh_token"])
    ELSE Put(Put(Put(cfg, "access_token", d["access_token"]),
                 "refresh_token", d["refresh_token"]),
             "expires_in", d["expires_in"])

ConfigFromStoreKeepsRefresh(cfg, st) ==
    Put(Put(cfg, "access_token", st["access_token"]),
        "expires_in", st["expires_in"])

\* Lines 138-140.
ConfigFromStore(cfg, st) ==
    Put(Put(Put(cfg, "access_token", st["access_token"]),
            "refresh_token", st["refresh_token"]),
        "expires_in", st["expires_in"])

IsStaleAnyAge(diff, expires_in) == diff >= 0

IsStaleInverted(diff, expires_in) == diff < expires_in * TicksPerSec

\* Line 119: diffsecs > store['expires_in'] (diff in ticks).
IsStale(diff, expires_in) == diff > expires_in * TicksPerSec

AcquiredStoreSwapped(tokens, t) ==
    [tokens_last_updated |-> IsoFormat(t),
     access_token |-> tokens["refresh_token"],
     refresh_token |-> tokens["access_token"],
     expires_in |-> tokens["expires_in"]]

\* Lines 132-135: the store built from the password grant's response.
AcquiredStore(tokens, t) ==
    [tokens_last_updated |-> IsoFormat(t),
     access_token |-> tokens["access_token"],
     refresh_token |-> tokens["refresh_token"],
     expires_in |-> tokens["expires_in"]]

\* Lines 124-126: the loaded store with the refresh grant's tokens and the
\* time of the refresh; its expires_in is left as loaded.
RefreshedStore(st, newstore, t) ==
    Put(Put(Put(st, "access_token", newstore["access_token"]),
            "refresh_token", newstore["refresh_token"]),
        "tokens_last_updated", IsoFormat(t))

LoadFailTreatedAsAbsent(c) ==
    /\ pc[c] = "new"
    /\ file # <<>>
    /\ LoadError(file[1])
    /\ pc' = [pc EXCEPT ![c] = "acquiring"]
    /\ acq' = [acq EXCEPT ![c] = @ + 1]
    /\ loaded' = [loaded EXCEPT ![c] = file]
    /\ loadedAt' = [loadedAt EXCEPT ![c] = now]
    /\ UNCHANGED <<now, file, fileWrittenAt, grants, config, store, lastupdate,
                   ref, sent, resp, retAt,
                   stamp, prev, asked>>

\* The file exists but reading it raises: the call ends there.
LoadFail(c) ==
    /\ pc[c] = "new"
    /\ file # <<>>
    /\ LoadError(file[1])
    /\ pc' = [pc EXCEPT ![c] = "failed"]
    /\ store' = [store EXCEPT ![c] = file[1]]
    /\ config' = [config EXCEPT ![c] = ConfigAfterLoad(config[c], file[1])]
    /\ loaded' = [loaded EXCEPT ![c] = file]
    /\ loadedAt' = [loadedAt EXCEPT ![c] = now]
    /\ retAt' = [retAt EXCEPT ![c] = now]
    /\ UNCHANGED <<now, file, fileWrittenAt, grants, lastupdate, acq, ref, sent, resp,
                   stamp, prev, asked>>

ReuseValidRestamps(c) ==
    /\ pc[c] = "new"
    /\ file # <<>>
    /\ ~LoadError(file[1])
    /\ LET d == file[1]
           lu == Strptime(d["tokens_last_updated"])
           st == Put(d, "tokens_last_updated", IsoFormat(now))
       IN /\ ~IsStale(now - lu, d["expires_in"])
          /\ lastupdate' = [lastupdate EXCEPT ![c] = lu]
          /\ store' = [store EXCEPT ![c] = st]
          /\ config' = [config EXCEPT ![c] =
                            ConfigFromStore(ConfigAfterLoad(config[c], d), st)]
          /\ file' = <<st>>
    /\ fileWrittenAt' = now
    /\ pc' = [pc EXCEPT ![c] = "ready"]
    /\ loaded' = [loaded EXCEPT ![c] = file]
    /\ loadedAt' = [loadedAt EXCEPT ![c] = now]
    /\ retAt' = [retAt EXCEPT ![c] = now]
    /\ UNCHANGED <<now, grants, acq, ref, sent, resp, stamp, prev, asked>>

\* The file holds a record that line 119 finds not too old: lines 138-140, and
\* nothing is written (haschanged is False).
ReuseValid(c) ==
    /\ pc[c] = "new"
    /\ file # <<>>
    /\ ~LoadError(file[1])
    /\ LET d == file[1]
           lu == Strptime(d["tokens_last_updated"])
       IN /\ ~IsStale(now - lu, d["expires_in"])
          /\ lastupdate' = [lastupdate EXCEPT ![c] = lu]
          /\ store' = [store EXCEPT ![c] = d]
          /\ config' = [config EXCEPT ![c] =
                            ConfigFromStore(ConfigAfterLoad(config[c], d), d)]
    /\ pc' = [pc EXCEPT ![c] = "ready"]
    /\ loaded' = [loaded EXCEPT ![c] = file]
    /\ loadedAt' = [loadedAt EXCEPT ![c] = now]
    /\ retAt' = [retAt EXCEPT ![c] = now]
    /\ UNCHANGED <<now, file, fileWrittenAt, grants, acq, ref, sent, resp,
                   stamp, prev, asked>>

\* The record is too old: _refresh_token posts the stored refresh token.
StartRefresh(c) ==
    /\ pc[c] = "new"
    /\ file # <<>>
    /\ ~LoadError(file[1])
    /\ LET d == file[1]
           lu == Strptime(d["tokens_last_updated"])
       IN /\ IsStale(now - lu, d["expires_in"])
          /\ lastupdate' = [lastupdate EXCEPT ![c] = lu]
          /\ store' = [store EXCEPT ![c] = d]
          /\ config' = [config EXCEPT ![c] = ConfigAfterLoad(config[c], d)]
          /\ sent' = [sent EXCEPT ![c] = <<d["refresh_token"]>>]
    /\ pc' = [pc EXCEPT ![c] = "refreshing"]
    /\ ref' = [ref EXCEPT ![c] = @ + 1]
    /\ loaded' = [loaded EXCEPT ![c] = file]
    /\ loadedAt' = [loadedAt EXCEPT ![c] = now]
    /\ UNCHANGED <<now, file, fileWrittenAt, grants, acq, resp, retAt,
                   stamp, prev, asked>>

\* No file: _get_token posts the password grant.
StartAcquire(c) ==
    /\ pc[c] = "new"
    /\ file = <<>>
    /\ pc' = [pc EXCEPT ![c] = "acquiring"]
    /\ acq' = [acq EXCEPT ![c] = @ + 1]
    /\ loaded' = [loaded EXCEPT ![c] = file]
    /\ loadedAt' = [loadedAt EXCEPT ![c] = now]
    /\ UNCHANGED <<now, file, fileWrittenAt, grants, config, store, lastupdate,
                   ref, sent, resp, retAt,
                   stamp, prev, asked>>

\* The provider answers the password grant with a new token pair: lines
\* 132-140. The store is yet to be written.
AcquireOk(c) ==
    /\ pc[c] = "acquiring"
    /\ grants < MaxGrants
    /\ \E e \in ExpiresChoices :
          LET tokens == TokenResponse(grants + 1, e)
              st == AcquiredStore(tokens, now)
          IN /\ resp' = [resp EXCEPT ![c] = Answer("ok", tokens)]
             /\ store' = [store EXCEPT ![c] = st]
             /\ config' = [config EXCEPT ![c] = ConfigFromStore(config[c], st)]
    /\ stamp' = [stamp EXCEPT ![c] = now]
    /\ grants' = grants + 1
    /\ pc' = [pc EXCEPT ![c] = "saving"]
    /\ UNCHANGED <<now, file, fileWrittenAt, lastupdate, loaded, loadedAt, acq,
                   ref, sent, retAt, prev, asked>>

AcquireFailPersists(c) ==
    /\ pc[c] = "acquiring"
    /\ resp' = [resp EXCEPT ![c] = Answer("fail", EmptyDict)]
    /\ pc' = [pc EXCEPT ![c] = "failed"]
    /\ retAt' = [retAt EXCEPT ![c] = now]
    /\ file' = <<[tokens_last_updated |-> IsoFormat(now)]>>
    /\ fileWrittenAt' = now
    /\ UNCHANGED <<now, grants, config, store, lastupdate, loaded,
                   loadedAt, acq, ref, sent,
                   stamp, prev, asked>>

AcquireFailRetries(c) ==
    /\ pc[c] = "acquiring"
    /\ acq[c] < 2
    /\ resp' = [resp EXCEPT ![c] = Answer("fail", EmptyDict)]
    /\ acq' = [acq EXCEPT ![c] = @ + 1]
    /\ UNCHANGED <<now, file, fileWrittenAt, grants, pc, config, store, lastupdate,
                   loaded, loadedAt, ref, sent, retAt, stamp, prev, asked>>

\* The password grant fails: a status other than 200 ends the process
\* (sys.exit, line 82), a network failure raises out of requests.post.
AcquireFail(c) ==
    /\ pc[c] = "acquiring"
    /\ resp' = [resp EXCEPT ![c] = Answer("fail", EmptyDict)]
    /\ pc' = [pc EXCEPT ![c] = "failed"]
    /\ retAt' = [retAt EXCEPT ![c] = now]
    /\ UNCHANGED <<now, file, fileWrittenAt, grants, config, store, lastupdate, loaded,
                   loadedAt, acq, ref, sent,
                   stamp, prev, asked>>

\* The provider answers the refresh grant with a new token pair: lines
\* 122-127 and 138-140. The store is yet to be written.
RefreshOk(c) ==
    /\ pc[c] = "refreshing"
    /\ grants < MaxGrants
    /\ \E e \in ExpiresChoices :
          LET newstore == TokenResponse(grants + 1, e)
              st == RefreshedStore(store[c], newstore, now)
          IN /\ resp' = [resp EXCEPT ![c] = Answer("ok", newstore)]
             /\ store' = [store EXCEPT ![c] = st]
             /\ config' = [config EXCEPT ![c] = ConfigFromStore(config[c], st)]
    /\ stamp' = [stamp EXCEPT ![c] = now]
    /\ grants' = grants + 1
    /\ sent' = [sent EXCEPT ![c] = <<>>]
    /\ pc' = [pc EXCEPT ![c] = "saving"]
    /\ UNCHANGED <<now, file, fileWrittenAt, lastupdate, loaded, loadedAt, acq,
                   ref, retAt, prev, asked>>

RefreshFailFallsBack(c) ==
    /\ pc[c] = "refreshing"
    /\ resp' = [resp EXCEPT ![c] = Answer("fail", EmptyDict)]
    /\ sent' = [sent EXCEPT ![c] = <<>>]
    /\ pc' = [pc EXCEPT ![c] = "acquiring"]
    /\ acq' = [acq EXCEPT ![c] = @ + 1]
    /\ UNCHANGED <<now, file, fileWrittenAt, grants, config, store, lastupdate, loaded,
                   loadedAt, ref, retAt,
                   stamp, prev, asked>>

\* The refresh grant fails: the error body has no 'access_token' (KeyError,
\* line 123), or requests.post raises. Nothing of `store` has changed yet.
RefreshFail(c) ==
    /\ pc[c] = "refreshing"
    /\ resp' = [resp EXCEPT ![c] = Answer("fail", EmptyDict)]
    /\ sent' = [sent EXCEPT ![c] = <<>>]
    /\ pc' = [pc EXCEPT ![c] = "failed"]
    /\ retAt' = [retAt EXCEPT ![c] = now]
    /\ UNCHANGED <<now, file, fileWrittenAt, grants, config, store, lastupdate, loaded,
                   loadedAt, acq, ref,
                   stamp, prev, asked>>

\* A file that open(tokenstore, 'w') has truncated: yaml.load gives None, and
\* None['access_token'] raises like a missing key.
TruncatedFile == <<EmptyDict>>

\* Line 144: haschanged is True and open(tokenstore, 'w') truncates the file.
OpenStore(c) ==
    /\ pc[c] = "saving"
    /\ file' = TruncatedFile
    /\ fileWrittenAt' = -1
    /\ pc' = [pc EXCEPT ![c] = "writing"]
    /\ UNCHANGED <<now, grants, config, store, lastupdate, loaded, loadedAt, acq,
                   ref, sent, resp, retAt, stamp, prev, asked>>

\* Line 145: the dump of `store` is written, the file closed, and the call
\* returns.
WriteStore(c) ==
    /\ pc[c] = "writing"
    /\ file' = <<store[c]>>
    /\ fileWrittenAt' = stamp[c]
    /\ pc' = [pc EXCEPT ![c] = "ready"]
    /\ retAt' = [retAt EXCEPT ![c] = now]
    /\ UNCHANGED <<now, grants, config, store, lastupdate, loaded, loadedAt, acq,
                   ref, sent, resp, stamp, prev, asked>>

\* The process is interrupted (KeyboardInterrupt, a kill, an IOError of the
\* write) after the provider's answer and before the store is written.
Interrupt(c) ==
    /\ pc[c] \in {"saving", "writing"}
    /\ pc' = [pc EXCEPT ![c] = "failed"]
    /\ retAt' = [retAt EXCEPT ![c] = now]
    /\ UNCHANGED <<now, file, fileWrittenAt, grants, config, store, lastupdate,
                   loaded, loadedAt, acq, ref, sent, resp, stamp, prev, asked>>

\* _get_station_data: the first call posts self.config['access_token'] to the
\* telemetry endpoint and fills response_cache; later calls use the cache.
GetStationData(c) ==
    /\ pc[c] = "ready"
    /\ asked' = [asked EXCEPT ![c] = IF @ = -1 THEN now ELSE @]
    /\ UNCHANGED <<now, file, fileWrittenAt, grants, pc, config, store, lastupdate,
                   loaded, loadedAt, acq, ref, sent, resp, retAt, stamp, prev>>

\* What a run leaves for the claims about two runs in succession, when it found
\* a file and returned: the file it found, the instant it returned and the token
\* it returned.
LastRun(c) ==
    IF pc[c] = "ready" /\ loaded[c] # <<>>
    THEN <<[loaded |-> loaded[c], at |-> retAt[c],
            token |-> config[c]["access_token"]]>>
    ELSE <<>>

\* The script is run again: a new Weatherstation object, its config read anew.
Restart(c) ==
    /\ pc[c] \in {"ready", "failed"}
    /\ pc' = [pc EXCEPT ![c] = "new"]
    /\ config' = [config EXCEPT ![c] = NoConfig]
    /\ store' = [store EXCEPT ![c] = EmptyDict]
    /\ lastupdate' = [lastupdate EXCEPT ![c] = -1]
    /\ loaded' = [loaded EXCEPT ![c] = <<>>]
    /\ loadedAt' = [loadedAt EXCEPT ![c] = -1]
    /\ acq' = [acq EXCEPT ![c] = 0]
    /\ ref' = [ref EXCEPT ![c] = 0]
    /\ sent' = [sent EXCEPT ![c] = <<>>]
    /\ resp' = [resp EXCEPT ![c] = NoAnswer]
    /\ retAt' = [retAt EXCEPT ![c] = -1]
    /\ stamp' = [stamp EXCEPT ![c] = -1]
    /\ prev' = [prev EXCEPT ![c] = LastRun(c)]
    /\ asked' = [asked EXCEPT ![c] = -1]
    /\ UNCHANGED <<now, file, fileWrittenAt, grants>>

\* The clock moves on.
Tick ==
    /\ now < MaxTime
    /\ now' = now + 1
    /\ UNCHANGED <<file, fileWrittenAt, grants, pc, config, store, lastupdate,
                   loaded, loadedAt, acq, ref, sent, resp, retAt,
                   stamp, prev, asked>>

Step(c) ==
    \/ LoadFail(c)
    \/ ReuseValid(c)
    \/ StartRefresh(c)
    \/ StartAcquire(c)
    \/ AcquireOk(c)
    \/ AcquireFail(c)
    \/ RefreshOk(c)
    \/ RefreshFail(c)
    \/ OpenStore(c)
    \/ WriteStore(c)
    \/ Interrupt(c)
    \/ Restart(c)

\* One process at a time: the script run again and again.
Next == Tick \/ Step(1) \/ GetStationData(1)

Spec == Init /\ [][Next]_vars

\* The steps the process takes by itself: they are taken sooner or later. The
\* provider's answers (AcquireOk, AcquireFail, RefreshOk, RefreshFail) are not:
\* requests.post is called without a timeout and waits for as long as the
\* provider stays silent.
LocalStep(c) ==
    \/ LoadFail(c)
    \/ ReuseValid(c)
    \/ StartRefresh(c)
    \/ StartAcquire(c)
    \/ OpenStore(c)
    \/ WriteStore(c)

SpecLive == Init /\ [][Next]_vars /\ WF_vars(Tick) /\ WF_vars(LocalStep(1))

\* Several processes share the token store (their telemetry requests, which
\* touch neither the store nor the provider's token endpoint, are left out).
NextConc == Tick \/ \E c \in Callers : Step(c)

SpecConc == Init /\ [][NextConc]_vars


\* ------------------------------------------------------------------ claims
Fields == {"access_token", "refresh_token", "expires_in", "tokens_last_updated"}

\* A persisted record that has every field and a timestamp with its fraction.
WellFormed(d) ==
    /\ Fields \subseteq DOMAIN d
    /\ d["tokens_last_updated"].frac # NoFrac

\* The age, in ticks, of record d at instant t.
Age(d, t) == t - Instant(d["tokens_last_updated"])

Window(d) == d["expires_in"] * TicksPerSec

InFlight == {"acquiring", "refreshing"}

\* Between a call's load and the end of its save.
Busy == InFlight \cup {"saving", "writing"}

Ended(c) == pc[c] \in {"ready", "failed"}

\* The call of c found a well-formed record in the file.
LoadedRecord(c) ==
    /\ pc[c] # "new"
    /\ loaded[c] # <<>>
    /\ WellFormed(loaded[c][1])

\* C1: when the call returns successfully at T, the record whose access token
\* is left in use is valid at T: T - issued_at < expires_in.
C1_ReturnedTokenValid ==
    \A c \in Callers :
        (pc[c] = "ready" /\ retAt[c] = now)
            => Age(store[c], now) < Window(store[c])

\* C2: a call that finds a record with age < expires_in sends no request to the
\* provider and returns the stored access token.
C2_ValidNoNetwork ==
    \A c \in Callers :
        (LoadedRecord(c) /\ Age(loaded[c][1], loadedAt[c]) < Window(loaded[c][1]))
            => /\ pc[c] = "ready"
               /\ acq[c] = 0
               /\ ref[c] = 0
               /\ resp[c] = NoAnswer
               /\ retAt[c] = loadedAt[c]
               /\ file = loaded[c]
               /\ config[c]["access_token"] = loaded[c][1]["access_token"]

C2_Witness ==
    \E c \in Callers :
        /\ LoadedRecord(c)
        /\ Age(loaded[c][1], loadedAt[c]) < Window(loaded[c][1])
        /\ Age(loaded[c][1], loadedAt[c]) > 0
        /\ pc[c] = "ready"

\* C3: a call that finds a record with age >= expires_in sends exactly one
\* refresh request, and when it returns the refreshed record is in the file.
C3_StaleRefreshedOnce ==
    \A c \in Callers :
        (LoadedRecord(c) /\ Ended(c)
            /\ Age(loaded[c][1], loadedAt[c]) >= Window(loaded[c][1]))
            => /\ ref[c] = 1
               /\ pc[c] = "ready" =>
                    /\ resp[c].status = "ok"
                    /\ file = <<store[c]>>
                    /\ store[c]["access_token"] = resp[c].body["access_token"]

\* C4: a call that finds no file sends exactly one password grant request and no
\* refresh request, and when it returns the file holds the acquired record: the
\* response's access_token, refresh_token and expires_in, issued at the time
\* read when the response arrived.
C4_NoRecordAcquires ==
    \A c \in Callers :
        (pc[c] # "new" /\ loaded[c] = <<>>)
            => /\ acq[c] = 1
               /\ ref[c] = 0
               /\ pc[c] = "ready" =>
                    /\ resp[c].status = "ok"
                    /\ file # <<>>
                    /\ DOMAIN file[1] = Fields
                    /\ file[1]["access_token"] = resp[c].body["access_token"]
                    /\ file[1]["refresh_token"] = resp[c].body["refresh_token"]
                    /\ file[1]["expires_in"] = resp[c].body["expires_in"]
                    /\ Instant(file[1]["tokens_last_updated"]) = stamp[c]

C4_Witness ==
    \E c \in Callers :
        /\ pc[c] = "ready"
        /\ loaded[c] = <<>>
        /\ acq[c] = 1
        /\ file # <<>>
        /\ file[1]["expires_in"] = MaxExpires

\* C5: calls that run concurrently against the same stale record send one
\* refresh request between them and all end with the same access token. (Two
\* calls that both returned after loading the same record older than its
\* window overlapped: a refresh that had ended would have replaced the record.)
C5_OneRefreshForAll ==
    \A c, d \in Callers :
        (/\ c # d
         /\ pc[c] = "ready" /\ pc[d] = "ready"
         /\ LoadedRecord(c) /\ loaded[d] = loaded[c]
         /\ Age(loaded[c][1], loadedAt[c]) > Window(loaded[c][1])
         /\ Age(loaded[d][1], loadedAt[d]) > Window(loaded[d][1]))
            => /\ ref[c] + ref[d] = 1
               /\ config[c]["access_token"] = config[d]["access_token"]

\* C6: load-check-refresh-save is an exclusive section: at most one request to
\* the provider is in flight, and no call loads the file while another call is
\* between its load and its save.
C6_ExclusiveSection ==
    /\ [](Cardinality({c \in Callers : pc[c] \in InFlight}) <= 1)
    /\ [][\A c \in Callers :
            (pc[c] = "new" /\ pc'[c] # "new")
                => \A d \in Callers \ {c} : pc[d] \notin Busy]_vars

\* C7: a record the program wrote is read back by a later call without a read
\* error, as the record written, its timestamp parsed to the instant written.
C7_RoundTrip ==
    [][\A c \in Callers :
        (pc[c] = "new" /\ pc'[c] # "new" /\ fileWrittenAt >= 0)
            => /\ pc'[c] # "failed"
               /\ store'[c] = file[1]
               /\ lastupdate'[c] = fileWrittenAt]_vars

\* C8: a call that finds a malformed record (a field missing, the timestamp
\* unparseable) fails, sends no request to the provider and leaves the file as
\* it was.
C8_MalformedFails ==
    \A c \in Callers :
        (pc[c] # "new" /\ loaded[c] # <<>> /\ ~WellFormed(loaded[c][1]))
            => /\ pc[c] = "failed"
               /\ acq[c] = 0
               /\ ref[c] = 0
               /\ resp[c] = NoAnswer
               /\ file = loaded[c]

C8_Witness ==
    \E c \in Callers :
        /\ pc[c] = "failed"
        /\ loaded[c] # <<>>
        /\ ~Has(loaded[c][1], "expires_in")
        /\ file = loaded[c]

\* C9: when the refresh request fails the call fails, no password grant is
\* requested, and the file is the record the call loaded.
C9_RefreshFailureFatal ==
    \A c \in Callers :
        (ref[c] >= 1 /\ resp[c].status = "fail")
            => /\ pc[c] = "failed"
               /\ acq[c] = 0
               /\ ref[c] = 1
               /\ file = loaded[c]

C9_Witness ==
    \E c \in Callers :
        /\ ref[c] = 1
        /\ resp[c].status = "fail"
        /\ pc[c] = "failed"
        /\ now > loadedAt[c]

\* C10: when the password grant request fails the call fails and nothing is
\* persisted: there is no file, also when the next call starts.
C10_AcquireFailureNothingPersisted ==
    /\ [](\A c \in Callers :
            (acq[c] >= 1 /\ ref[c] = 0 /\ resp[c].status = "fail")
                => (pc[c] = "failed" /\ file = <<>>))
    /\ [][\A c \in Callers :
            (acq[c] >= 1 /\ resp[c].status = "fail" /\ pc'[c] = "new")
                => file' = <<>>]_vars

C10_Witness ==
    \E c \in Callers :
        /\ acq[c] = 1
        /\ resp[c].status = "fail"
        /\ pc[c] = "failed"
        /\ file = <<>>

\* C11: a load of the token store never finds an empty or partly written file:
\* it finds no file, the record of before, or the complete new record, also
\* after a call was interrupted in the middle of its save.
C11_SaveAllOrNothing ==
    [][\A c \in Callers :
        (pc[c] = "new" /\ pc'[c] # "new") => file # TruncatedFile]_vars

\* C12: every request to the provider is bounded by a timeout, so a call that
\* waits for the provider always ends, with a token or with a failure, even
\* when the provider never answers.
C12_CallsEnd ==
    \A c \in Callers : (pc[c] \in InFlight) ~> Ended(c)

\* C13: two runs in immediate succession on a record with age < expires_in
\* return the same access token, and the file after the second is the file
\* before the first.
C13_Idempotent ==
    \A c \in Callers :
        (/\ pc[c] # "new"
         /\ prev[c] # <<>>
         /\ WellFormed(prev[c][1].loaded[1])
         /\ Age(prev[c][1].loaded[1], prev[c][1].at) < Window(prev[c][1].loaded[1])
         /\ loadedAt[c] = prev[c][1].at)
            => /\ pc[c] = "ready"
               /\ config[c]["access_token"] = prev[c][1].token
               /\ file = prev[c][1].loaded

C13_Witness ==
    \E c \in Callers :
        /\ pc[c] = "ready"
        /\ prev[c] # <<>>
        /\ WellFormed(prev[c][1].loaded[1])
        /\ Age(prev[c][1].loaded[1], prev[c][1].at) < Window(prev[c][1].loaded[1])
        /\ Age(prev[c][1].loaded[1], prev[c][1].at) > 0
        /\ loadedAt[c] = prev[c][1].at
        /\ config[c]["access_token"] = prev[c][1].token

\* C14: after a successful refresh the file holds the provider's new record in
\* full: the response's access_token, refresh_token and expires_in, issued at the
\* time of the refresh.
C14_RefreshedRecordInFull ==
    \A c \in Callers :
        (pc[c] = "ready" /\ ref[c] = 1 /\ resp[c].status = "ok")
            => /\ file # <<>>
               /\ DOMAIN file[1] = Fields
               /\ file[1]["access_token"] = resp[c].body["access_token"]
               /\ file[1]["refresh_token"] = resp[c].body["refresh_token"]
               /\ file[1]["expires_in"] = resp[c].body["expires_in"]
               /\ Instant(file[1]["tokens_last_updated"]) = stamp[c]

\* C15: a call sends at most one request to the provider's token endpoint: one
\* password grant or one refresh grant, never both, never one twice, whether it
\* succeeds or fails.
C15_AtMostOneRequest ==
    \A c \in Callers : acq[c] + ref[c] <= 1

C15_Witness ==
    \E c \in Callers :
        /\ pc[c] = "failed"
        /\ resp[c].status = "fail"
        /\ acq[c] + ref[c] = 1
        /\ now > loadedAt[c]

\* C16: a request to the telemetry endpoint bears an access token whose validity
\* window has not elapsed when the request is sent, however long after the
\* construction of the object. (Stated for the objects whose construction
\* did yield a token valid at its return; the others are what C1 is about.)
C16_TelemetryTokenValid ==
    \A c \in Callers :
        (pc[c] = "ready" /\ asked[c] # -1
            /\ Age(store[c], retAt[c]) < Window(store[c]))
            => Age(store[c], asked[c]) < Window(store[c])

\* C17: the refresh token a refresh request submits is the most recent one the
\* provider issued, also after a call was interrupted between the provider's
\* answer and the end of its save.
C17_LatestRefreshTokenSent ==
    \A c \in Callers :
        pc[c] = "refreshing" => sent[c] = <<RefreshToken(grants)>>

\* C18: a call that sends no request to the provider does not write the token
\* store: the file is what the call found.
C18_NoRequestNoWrite ==
    \A c \in Callers :
        (Ended(c) /\ acq[c] = 0 /\ ref[c] = 0) => file = loaded[c]

C18_Witness ==
    \E c \in Callers :
        /\ pc[c] = "ready"
        /\ acq[c] = 0
        /\ ref[c] = 0
        /\ file = loaded[c]
        /\ grants > 0

TokenKeys == {"access_token", "refresh_token", "expires_in"}

\* C19: after a call that returned successfully, self.config's access_token,
\* refresh_token and expires_in are those of the record in the file.
C19_ConfigMatchesStore ==
    \A c \in Callers :
        pc[c] = "ready"
            => /\ file # <<>>
               /\ \A k \in TokenKeys :
                    /\ Has(config[c], k)
                    /\ Has(file[1], k)
                    /\ config[c][k] = file[1][k]

C19_Witness ==
    \E c \in Callers :
        /\ pc[c] = "ready"
        /\ ref[c] = 1
        /\ file = <<store[c]>>
        /\ config[c]["refresh_token"] = resp[c].body["refresh_token"]

====
